---- MODULE Spec2Model ----
(***************************************************************************)
(* osrs_info: the Hiscores object (fetch / parse into five ordered         *)
(* buckets) and the ItemsClient (two caches, tradeable subset, lookup,     *)
(* search, price).  Strings are sequences of one-character strings, so     *)
(* that strip, lower, replace, split, join, str(int) and substring tests   *)
(* are computed as the code computes them.  None is the empty sequence     *)
(* and a present value v is <<v>>.                                         *)
(***************************************************************************)
EXTENDS Integers, Sequences, FiniteSets, TLC

\* ------------------------------------------------------------------ bounds
\* rows (skills plus activities) in one hiscores response
MaxRows == 2
\* rows in one /mapping response
MaxItems == 2

\* characters in a name handed to normalize_name
MaxLen == 4

\* search() calls fuzzy_search(query, limit=limit or 10, ...)
FuzzyDefaultLimit == 10

\* ----------------------------------------------------------------- strings
None == << >>
Some(v) == <<v>>

UpperCase == <<"A", "B", "C", "D", "E", "F", "G", "H", "I", "J", "K", "L", "M", "N", "O", "P", "Q", "R", "S", "T", "U", "V", "W", "X", "Y", "Z">>
LowerCase == <<"a", "b", "c", "d", "e", "f", "g", "h", "i", "j", "k", "l", "m", "n", "o", "p", "q", "r", "s", "t", "u", "v", "w", "x", "y", "z">>
Digits == <<"0", "1", "2", "3", "4", "5", "6", "7", "8", "9">>

IsUpper(c) == \E i \in 1..Len(UpperCase) : UpperCase[i] = c

char_lower(c) ==
  IF IsUpper(c)
    THEN LowerCase[CHOOSE i \in 1..Len(UpperCase) : UpperCase[i] = c]
    ELSE c

\* str.lower()
str_lower(s) == [i \in 1..Len(s) |-> char_lower(s[i])]

IsSpace(c) == c = " "

RECURSIVE str_lstrip(_)
str_lstrip(s) ==
  IF s # << >> /\ IsSpace(Head(s)) THEN str_lstrip(Tail(s)) ELSE s

RECURSIVE str_rstrip(_)
str_rstrip(s) ==
  IF s # << >> /\ IsSpace(s[Len(s)]) THEN str_rstrip(SubSeq(s, 1, Len(s) - 1)) ELSE s

\* str.strip()
str_strip(s) == str_rstrip(str_lstrip(s))

\* str.replace(old, new) for a one-character old
RECURSIVE str_replace(_, _, _)
str_replace(s, old, new) ==
  IF s = << >> THEN << >>
  ELSE (IF Head(s) = old THEN new ELSE <<Head(s)>>) \o str_replace(Tail(s), old, new)

\* str.split(): the maximal runs of non-whitespace characters
RECURSIVE SplitWords(_, _, _)
SplitWords(s, cur, acc) ==
  IF s = << >> THEN (IF cur = << >> THEN acc ELSE Append(acc, cur))
  ELSE IF IsSpace(Head(s))
    THEN SplitWords(Tail(s), << >>, IF cur = << >> THEN acc ELSE Append(acc, cur))
    ELSE SplitWords(Tail(s), Append(cur, Head(s)), acc)

str_split(s) == SplitWords(s, << >>, << >>)

\* sep.join(words)
RECURSIVE str_join(_, _)
str_join(sep, words) ==
  IF words = << >> THEN << >>
  ELSE IF Len(words) = 1 THEN words[1]
  ELSE words[1] \o sep \o str_join(sep, Tail(words))

startswith(s, p) == Len(s) >= Len(p) /\ SubSeq(s, 1, Len(p)) = p
endswith(s, p) == Len(s) >= Len(p) /\ SubSeq(s, Len(s) - Len(p) + 1, Len(s)) = p

\* p in s (substring)
contains(s, p) == \E i \in 0..(Len(s) - Len(p)) : SubSeq(s, i + 1, i + Len(p)) = p

SeqsUpTo(S, n) == UNION {[1..k -> S] : k \in 0..n}

\* --------------------------------------------------------------- constants
NON_BOSS_ACTIVITY_KEYS ==
  { <<"g", "r", "i", "d", "_", "p", "o", "i", "n", "t", "s">>,
    <<"l", "e", "a", "g", "u", "e", "_", "p", "o", "i", "n", "t", "s">>,
    <<"d", "e", "a", "d", "m", "a", "n", "_", "p", "o", "i", "n", "t", "s">>,
    <<"s", "e", "a", "s", "o", "n", "a", "l", "_", "p", "o", "i", "n", "t", "s">>,
    <<"t", "o", "u", "r", "n", "a", "m", "e", "n", "t", "_", "p", "o", "i", "n", "t", "s">>,
    <<"c", "o", "l", "l", "e", "c", "t", "i", "o", "n", "_", "l", "o", "g">>,
    <<"c", "o", "l", "l", "e", "c", "t", "i", "o", "n", "s", "_", "l", "o", "g", "g", "e", "d">>,
    <<"c", "o", "l", "o", "s", "s", "e", "u", "m", "_", "g", "l", "o", "r", "y">> }

PVP_ACTIVITY_KEYS ==
  { <<"b", "o", "u", "n", "t", "y", "_", "h", "u", "n", "t", "e", "r", "_", "h", "u", "n", "t", "e", "r">>,
    <<"b", "o", "u", "n", "t", "y", "_", "h", "u", "n", "t", "e", "r", "_", "r", "o", "g", "u", "e">>,
    <<"b", "o", "u", "n", "t", "y", "_", "h", "u", "n", "t", "e", "r", "_", "l", "e", "g", "a", "c", "y", "_", "h", "u", "n", "t", "e", "r">>,
    <<"b", "o", "u", "n", "t", "y", "_", "h", "u", "n", "t", "e", "r", "_", "l", "e", "g", "a", "c", "y", "_", "r", "o", "g", "u", "e">>,
    <<"l", "a", "s", "t", "_", "m", "a", "n", "_", "s", "t", "a", "n", "d", "i", "n", "g">>,
    <<"l", "m", "s", "_", "r", "a", "n", "k">>,
    <<"p", "v", "p", "_", "a", "r", "e", "n", "a", "_", "r", "a", "n", "k">>,
    <<"p", "v", "p", "_", "a", "r", "e", "n", "a">>,
    <<"s", "o", "u", "l", "_", "w", "a", "r", "s", "_", "z", "e", "a", "l">>,
    <<"r", "i", "f", "t", "s", "_", "c", "l", "o", "s", "e", "d">> }

CluePrefix == <<"c", "l", "u", "e", "_", "s", "c", "r", "o", "l", "l", "s", "_">>
PointsSuffix == <<"_", "p", "o", "i", "n", "t", "s">>
RankSuffix == <<"_", "r", "a", "n", "k">>

\* ---------------------------------------------------------- normalize_name
NormPunct == <<"-", ":", "(", ")", ",">>

RECURSIVE ReplacePunct(_, _)
ReplacePunct(s, i) ==
  IF i > Len(NormPunct) THEN s
  ELSE ReplacePunct(str_replace(s, NormPunct[i], <<" ">>), i + 1)

\* normalize_name with the apostrophes left in
normalize_nameKeepApostrophes(name) ==
  str_join(<<"_">>, str_split(ReplacePunct(str_lower(str_strip(name)), 1)))

normalize_name(name) ==
  LET s1 == str_lower(str_strip(name))
      s2 == str_replace(s1, "'", << >>)
      s3 == ReplacePunct(s2, 1)
  IN  str_join(<<"_">>, str_split(s3))

\* ------------------------------------------------------------------- state
VARIABLES
  \* Hiscores
  raw_json, fetched, parsed,
  skill_order, clue_order, pvp_order, activity_order, boss_order,
  skills, clues, pvp, activities, bosses,
  \* what the last Hiscores call was and how it ended
  hs_last,
  \* ItemsClient: _mapping_cache, _names_cache, _latest_cache
  mapping_cache, names_cache, latest_cache,
  \* whether `from rapidfuzz import process, fuzz` succeeds in this runtime
  rapidfuzz,
  \* the last ItemsClient call: its arguments, how it ended, what it returned
  \* and the requests it sent
  it_last

hsVars == <<raw_json, fetched, parsed,
            skill_order, clue_order, pvp_order, activity_order, boss_order,
            skills, clues, pvp, activities, bosses, hs_last>>

itVars == <<mapping_cache, names_cache, latest_cache, rapidfuzz, it_last>>

vars == <<hsVars, itVars>>

\* --------------------------------------------------------------- dict helpers
EmptyDict == [k \in {} |-> None]
DictSet(d, key, val) == [k \in (DOMAIN d) \cup {key} |-> IF k = key THEN val ELSE d[k]]
\* dict.get(key) on a JSON object: None when the key is absent
Get(obj, key) == IF key \in DOMAIN obj THEN Some(obj[key]) ELSE None
SeqKeys(order) == {order[i] : i \in 1..Len(order)}

\* ------------------------------------------------------- hiscores responses
\* display names the stats endpoint is made to return
NameClue == <<"C", "l", "u", "e", " ", "S", "c", "r", "o", "l", "l", "s", " ", "(", "a", "l", "l", ")">>
NameLms == <<"L", "M", "S", " ", "-", " ", "R", "a", "n", "k">>
NameGrid == <<"G", "r", "i", "d", " ", "P", "o", "i", "n", "t", "s">>
NameObor == <<"O", "b", "o", "r">>
NameAttack == <<"A", "t", "t", "a", "c", "k">>
PlayerName == <<"Z", "e", "z">>

\* the rows a response is made of; a row without "name" is a malformed row
ActRowPool ==
  { [name |-> NameClue, score |-> 42],
    [name |-> NameLms, score |-> 3],
    [name |-> NameGrid, score |-> 10],
    [name |-> NameObor, score |-> 55] }

SkillRowPool == { [name |-> NameAttack, level |-> 99] }

BadRow == [score |-> 7, level |-> 1]

\* the endpoint numbers its rows: id is the row's index
MkActRow(p, i) ==
  IF "name" \in DOMAIN p
    THEN [id |-> i - 1, name |-> p.name, rank |-> i, score |-> p.score]
    ELSE [id |-> i - 1, rank |-> i, score |-> p.score]

MkSkillRow(p, i) ==
  IF "name" \in DOMAIN p
    THEN [id |-> i - 1, name |-> p.name, rank |-> i, level |-> p.level, xp |-> 0]
    ELSE [id |-> i - 1, rank |-> i, level |-> p.level, xp |-> 0]

MkRows(Mk(_, _), ps) == [i \in 1..Len(ps) |-> Mk(ps[i], i)]

EmptyObject == [k \in {} |-> None]

ResponsesOver(spool, apool, n) ==
  { EmptyObject, [name |-> PlayerName] } \cup
  { [name |-> PlayerName, skills |-> MkRows(MkSkillRow, pr[1]), activities |-> MkRows(MkActRow, pr[2])] :
      pr \in { q \in SeqsUpTo(spool, n) \X SeqsUpTo(apool, n) : Len(q[1]) + Len(q[2]) <= n } }

\* two bodies that decode but hold a row without "name": one in skills after a
\* good row, one in activities after a good row
MalformedResponses ==
  { [name |-> PlayerName,
     skills |-> MkRows(MkSkillRow, <<[name |-> NameAttack, level |-> 99], BadRow>>)],
    [name |-> PlayerName, skills |-> << >>,
     activities |-> MkRows(MkActRow, <<[name |-> NameObor, score |-> 55], BadRow>>)] }

HiscoresResponses == ResponsesOver(SkillRowPool, ActRowPool, MaxRows) \cup MalformedResponses

\* ------------------------------------------------------------ Hiscores.parse
\* the entry _parse_skills stores for a row
SkillEntry(row) ==
  [id |-> Get(row, "id"), name |-> Get(row, "name"), rank |-> Get(row, "rank"),
   level |-> Get(row, "level"), xp |-> Get(row, "xp")]

\* SkillStep with the store left out: the key is appended and never stored
SkillStepAppendOnly(st, row, key) ==
  [order |-> Append(st.order, key), map |-> st.map, ok |-> TRUE]

\* one pass of the loop body of _parse_skills, key being the normalized name
SkillStep(st, row, key) ==
  [order |-> Append(st.order, key), map |-> DictSet(st.map, key, SkillEntry(row)), ok |-> TRUE]

\* the loop of _parse_skills over rows[i..]: st = [order, map, ok]; a row
\* without "name" raises KeyError at row["name"], before anything is appended
RECURSIVE SkillsLoop(_, _, _)
SkillsLoop(rows, i, st) ==
  IF i > Len(rows) THEN st
  ELSE IF "name" \notin DOMAIN rows[i] THEN [st EXCEPT !.ok = FALSE]
  ELSE SkillsLoop(rows, i + 1, SkillStep(st, rows[i], normalize_name(rows[i].name)))

parse_skills(rows) == SkillsLoop(rows, 1, [order |-> << >>, map |-> EmptyDict, ok |-> TRUE])

\* Bucket with the suffix rule tried before the PvP set
BucketSuffixFirst(key) ==
  IF startswith(key, CluePrefix) THEN "clues"
  ELSE IF key \in NON_BOSS_ACTIVITY_KEYS \/ endswith(key, PointsSuffix) \/ endswith(key, RankSuffix)
    THEN "activities"
  ELSE IF key \in PVP_ACTIVITY_KEYS THEN "pvp"
  ELSE "bosses"

\* the bucket the if / elif chain of _parse_activities picks for a key
Bucket(key) ==
  IF startswith(key, CluePrefix) THEN "clues"
  ELSE IF key \in PVP_ACTIVITY_KEYS THEN "pvp"
  ELSE IF key \in NON_BOSS_ACTIVITY_KEYS \/ endswith(key, PointsSuffix) \/ endswith(key, RankSuffix)
    THEN "activities"
  ELSE "bosses"

BucketNames == {"clues", "pvp", "activities", "bosses"}

\* the entry _parse_activities stores for a row
ActEntry(row) ==
  [id |-> Get(row, "id"), name |-> Get(row, "name"), rank |-> Get(row, "rank"),
   score |-> Get(row, "score")]

\* one pass of the loop body of _parse_activities into bucket b
ActStep(st, row, key, b) ==
  [order |-> [st.order EXCEPT ![b] = Append(@, key)],
   map |-> [st.map EXCEPT ![b] = DictSet(@, key, ActEntry(row))],
   ok |-> TRUE]

\* the loop of _parse_activities: st = [order, map, ok], order and map being
\* functions of the four bucket names
RECURSIVE ActsLoop(_, _, _)
ActsLoop(rows, i, st) ==
  IF i > Len(rows) THEN st
  ELSE IF "name" \notin DOMAIN rows[i] THEN [st EXCEPT !.ok = FALSE]
  ELSE LET key == normalize_name(rows[i].name)
       IN  ActsLoop(rows, i + 1, ActStep(st, rows[i], key, Bucket(key)))

\* _parse_activities without the clearing: the rows are filed on top of what
\* the buckets hold
parse_activitiesMerging(rows) ==
  ActsLoop(rows, 1,
           [order |-> [b \in BucketNames |->
                         CASE b = "clues" -> clue_order
                           [] b = "pvp" -> pvp_order
                           [] b = "activities" -> activity_order
                           [] b = "bosses" -> boss_order],
            map |-> [b \in BucketNames |->
                       CASE b = "clues" -> clues
                         [] b = "pvp" -> pvp
                         [] b = "activities" -> activities
                         [] b = "bosses" -> bosses],
            ok |-> TRUE])

parse_activities(rows) ==
  ActsLoop(rows, 1, [order |-> [b \in BucketNames |-> << >>],
                     map |-> [b \in BucketNames |-> EmptyDict],
                     ok |-> TRUE])

\* raw_json.get(key, [])
GetList(obj, key) == IF key \in DOMAIN obj THEN obj[key] ELSE << >>

\* `not self.raw_json`: None or the empty object
Falsy(rj) == rj = None \/ DOMAIN rj[1] = {}

Parse ==
  IF Falsy(raw_json)
    THEN /\ hs_last' = [op |-> "parse", outcome |-> "ValueError"]
         /\ UNCHANGED <<raw_json, fetched, parsed,
                        skill_order, clue_order, pvp_order, activity_order, boss_order,
                        skills, clues, pvp, activities, bosses, itVars>>
    ELSE \E sk \in {parse_skills(GetList(raw_json[1], "skills"))},
            ac \in {parse_activities(GetList(raw_json[1], "activities"))} :
             /\ skills' = sk.map
             /\ skill_order' = sk.order
             /\ IF sk.ok
                  THEN /\ clues' = ac.map["clues"]
                       /\ pvp' = ac.map["pvp"]
                       /\ activities' = ac.map["activities"]
                       /\ bosses' = ac.map["bosses"]
                       /\ clue_order' = ac.order["clues"]
                       /\ pvp_order' = ac.order["pvp"]
                       /\ activity_order' = ac.order["activities"]
                       /\ boss_order' = ac.order["bosses"]
                       /\ parsed' = (IF ac.ok THEN TRUE ELSE parsed)
                       /\ hs_last' = [op |-> "parse", outcome |-> IF ac.ok THEN "ok" ELSE "KeyError"]
                  ELSE /\ UNCHANGED <<clues, pvp, activities, bosses,
                                      clue_order, pvp_order, activity_order, boss_order, parsed>>
                       /\ hs_last' = [op |-> "parse", outcome |-> "KeyError"]
             /\ UNCHANGED <<raw_json, fetched, itVars>>

\* ------------------------------------------------------------ Hiscores.fetch
\* fetch_index_lite_json raises FetchError (nothing is assigned) or returns
\* the decoded body
Fetch ==
  \/ /\ hs_last' = [op |-> "fetch", outcome |-> "FetchError"]
     /\ UNCHANGED <<raw_json, fetched, parsed,
                    skill_order, clue_order, pvp_order, activity_order, boss_order,
                    skills, clues, pvp, activities, bosses, itVars>>
  \/ \E resp \in HiscoresResponses :
       /\ raw_json' = Some(resp)
       /\ fetched' = TRUE
       /\ parsed' = FALSE
       /\ hs_last' = [op |-> "fetch", outcome |-> "ok"]
       /\ UNCHANGED <<skill_order, clue_order, pvp_order, activity_order, boss_order,
                      skills, clues, pvp, activities, bosses, itVars>>

\* --------------------------------------------------------- HiscoresAPI.get
\* get(username, fetch=..., parse=...) makes a new Hiscores, calls fetch() and
\* parse() on it as asked and returns it: the variables then stand for the
\* returned object. When fetch() or parse() raises, nothing is returned and
\* the object the caller held before is as it was.
GetRaw(fetch) == IF fetch THEN { Some(resp) : resp \in HiscoresResponses } ELSE { None }

GetRaises(fetch, parse, outcome) ==
  /\ hs_last' = [op |-> "get", args |-> <<fetch, parse>>, outcome |-> outcome]
  /\ UNCHANGED <<raw_json, fetched, parsed,
                 skill_order, clue_order, pvp_order, activity_order, boss_order,
                 skills, clues, pvp, activities, bosses, itVars>>

GetReturns(fetch, parse, raw, sk, ac) ==
  /\ raw_json' = raw
  /\ fetched' = fetch
  /\ parsed' = parse
  /\ skills' = sk.map
  /\ skill_order' = sk.order
  /\ clues' = ac.map["clues"]
  /\ pvp' = ac.map["pvp"]
  /\ activities' = ac.map["activities"]
  /\ bosses' = ac.map["bosses"]
  /\ clue_order' = ac.order["clues"]
  /\ pvp_order' = ac.order["pvp"]
  /\ activity_order' = ac.order["activities"]
  /\ boss_order' = ac.order["bosses"]
  /\ hs_last' = [op |-> "get", args |-> <<fetch, parse>>, outcome |-> "ok"]
  /\ UNCHANGED itVars

ApiGet ==
  \E fetch \in BOOLEAN, parse \in BOOLEAN :
    \/ fetch /\ GetRaises(fetch, parse, "FetchError")
    \/ \E raw \in GetRaw(fetch) :
         IF parse /\ Falsy(raw)
           THEN GetRaises(fetch, parse, "ValueError")
           ELSE \E sk \in {parse_skills(IF parse THEN GetList(raw[1], "skills") ELSE << >>)},
                   ac \in {parse_activities(IF parse THEN GetList(raw[1], "activities") ELSE << >>)} :
                  IF sk.ok /\ ac.ok
                    THEN GetReturns(fetch, parse, raw, sk, ac)
                    ELSE GetRaises(fetch, parse, "KeyError")

\* ------------------------------------------------- accessors and iterators
\* what an accessor hands back: a whole entry, a field of an entry (None or a
\* value), or the default it was given (None when it was given none)
Returned(tag, v) == [outcome |-> "ok", value |-> [tag |-> tag, v |-> v]]
Raised(exc) == [outcome |-> exc, value |-> [tag |-> "raise"]]

\* _get_bucket once the key k to look up is known
BucketAt(bucket, k, field, default) ==
  IF k \notin DOMAIN bucket
    THEN IF default # None THEN Returned("default", default) ELSE Raised("KeyError")
  ELSE IF field = None THEN Returned("entry", bucket[k])
  ELSE IF field[1] \in DOMAIN bucket[k] THEN Returned("field", bucket[k][field[1]])
  ELSE Returned("default", default)

\* _get_bucket with the key looked up as it was supplied
get_bucketRawKey(bucket, key, field, default) == BucketAt(bucket, key, field, default)

\* _get_bucket(bucket, key, field, default); field and default are None when
\* the caller leaves them out (or passes None)
get_bucket(bucket, key, field, default) == BucketAt(bucket, normalize_name(key), field, default)

\* skill / clue / pvp_activity / activity / boss and the bucket each reads
AccessorNames == {"skill", "clue", "pvp_activity", "activity", "boss"}

BucketOf(a) ==
  CASE a = "skill" -> skills
    [] a = "clue" -> clues
    [] a = "pvp_activity" -> pvp
    [] a = "activity" -> activities
    [] a = "boss" -> bosses

\* keys callers ask for: display names, a normalized key, an unknown name
AccessKeys ==
  { NameAttack, NameLms, <<"l", "m", "s", "_", "r", "a", "n", "k">>, << "z", "z" >> }
AccessFields == { None, Some("score") }
AccessDefaults == { None, Some(0) }

Accessor ==
  \E a \in AccessorNames, key \in AccessKeys, field \in AccessFields, default \in AccessDefaults :
    \E r \in {get_bucket(BucketOf(a), key, field, default)} :
      /\ hs_last' = [op |-> a, args |-> <<key, field, default>>,
                     outcome |-> r.outcome, value |-> r.value]
      /\ UNCHANGED <<raw_json, fetched, parsed,
                     skill_order, clue_order, pvp_order, activity_order, boss_order,
                     skills, clues, pvp, activities, bosses, itVars>>

\* skills_iter .. bosses_iter, run to the end: the (k, map[k]) pairs for k in
\* the order list; map[k] raises KeyError for a key the map lacks
IterNames == {"skills_iter", "clues_iter", "pvp_iter", "activities_iter", "bosses_iter"}

IterOrder(it) ==
  CASE it = "skills_iter" -> skill_order
    [] it = "clues_iter" -> clue_order
    [] it = "pvp_iter" -> pvp_order
    [] it = "activities_iter" -> activity_order
    [] it = "bosses_iter" -> boss_order

IterMap(it) ==
  CASE it = "skills_iter" -> skills
    [] it = "clues_iter" -> clues
    [] it = "pvp_iter" -> pvp
    [] it = "activities_iter" -> activities
    [] it = "bosses_iter" -> bosses

\* an iterator that walks the order list backwards
bucket_iterReversed(order, map) ==
  IF \E i \in 1..Len(order) : order[i] \notin DOMAIN map
    THEN [outcome |-> "KeyError", value |-> << >>]
    ELSE [outcome |-> "ok",
          value |-> [i \in 1..Len(order) |->
                       <<order[Len(order) + 1 - i], map[order[Len(order) + 1 - i]]>>]]

bucket_iter(order, map) ==
  IF \E i \in 1..Len(order) : order[i] \notin DOMAIN map
    THEN [outcome |-> "KeyError", value |-> << >>]
    ELSE [outcome |-> "ok", value |-> [i \in 1..Len(order) |-> <<order[i], map[order[i]]>>]]

Iterate ==
  \E it \in IterNames :
    \E r \in {bucket_iter(IterOrder(it), IterMap(it))} :
      /\ hs_last' = [op |-> it, outcome |-> r.outcome, value |-> r.value]
      /\ UNCHANGED <<raw_json, fetched, parsed,
                     skill_order, clue_order, pvp_order, activity_order, boss_order,
                     skills, clues, pvp, activities, bosses, itVars>>

\* ------------------------------------------- HiscoresClient._mode_suffix
\* _mode_suffix with hardcore tested before ultimate
mode_suffixHardcoreFirst(ironman, hardcore, ultimate, deadman, seasonal) ==
  IF seasonal THEN "_seasonal"
  ELSE IF deadman THEN "_deadman"
  ELSE IF hardcore THEN "_hardcore_ironman"
  ELSE IF ultimate THEN "_ultimate"
  ELSE IF ironman THEN "_ironman"
  ELSE ""

mode_suffix(ironman, hardcore, ultimate, deadman, seasonal) ==
  IF seasonal THEN "_seasonal"
  ELSE IF deadman THEN "_deadman"
  ELSE IF ultimate THEN "_ultimate"
  ELSE IF hardcore THEN "_hardcore_ironman"
  ELSE IF ironman THEN "_ironman"
  ELSE ""

\* ------------------------------------------------ calls of the two functions
\* hs_last holds a call that is about to be made (op "call"), then the call
\* with what it returned
ModeFlags ==
  [ironman : BOOLEAN, hardcore : BOOLEAN, ultimate : BOOLEAN, deadman : BOOLEAN, seasonal : BOOLEAN]

\* the characters of display names and of keys
NormAlphabet == {"a", "B", " ", "_", "'", "-", ":", "(", ")", ","}
NormInputs == SeqsUpTo(NormAlphabet, MaxLen)

HsUntouched ==
  UNCHANGED <<raw_json, fetched, parsed,
              skill_order, clue_order, pvp_order, activity_order, boss_order,
              skills, clues, pvp, activities, bosses, itVars>>

ModeSuffix ==
  /\ hs_last.op = "call"
  /\ hs_last.fn = "_mode_suffix"
  /\ hs_last' = [op |-> "_mode_suffix", args |-> hs_last.args, outcome |-> "ok",
                 value |-> mode_suffix(hs_last.args.ironman, hs_last.args.hardcore,
                                       hs_last.args.ultimate, hs_last.args.deadman,
                                       hs_last.args.seasonal)]
  /\ HsUntouched

\* normalize_name(x)
NormalizeName ==
  /\ hs_last.op = "call"
  /\ hs_last.fn = "normalize_name"
  /\ hs_last' = [op |-> "normalize_name", args |-> hs_last.args, outcome |-> "ok",
                 value |-> normalize_name(hs_last.args[1])]
  /\ HsUntouched

\* normalize_name(normalize_name(x)): first is what the inner call returned
NormalizeAgain ==
  /\ hs_last.op = "normalize_name"
  /\ hs_last' = [op |-> "normalize_name_twice", args |-> hs_last.args, outcome |-> "ok",
                 first |-> hs_last.value, value |-> normalize_name(hs_last.value)]
  /\ HsUntouched

\* =============================================================== ItemsClient
\* characters in code point order, for comparing strings the way sort() does
AsciiOrder ==
  <<" ", "'", "(", ")", ",", "-">> \o Digits \o <<":">> \o UpperCase \o <<"_">> \o LowerCase

Ord(c) == CHOOSE i \in 1..Len(AsciiOrder) : AsciiOrder[i] = c

\* a < b for strings
RECURSIVE str_less(_, _)
str_less(a, b) ==
  IF b = << >> THEN FALSE
  ELSE IF a = << >> THEN TRUE
  ELSE IF Head(a) = Head(b) THEN str_less(Tail(a), Tail(b))
  ELSE Ord(Head(a)) < Ord(Head(b))

\* str(n) for an integer n
RECURSIVE NatDigits(_)
NatDigits(n) == IF n < 10 THEN <<Digits[n + 1]>> ELSE NatDigits(n \div 10) \o <<Digits[(n % 10) + 1]>>

str(n) == IF n < 0 THEN <<"-">> \o NatDigits(0 - n) ELSE NatDigits(n)

\* the aliases field: lowercase query -> replacement query
aliases == [q \in { <<"w">> } |-> <<"A", "b">>]

\* ---------------------------------------------------------- catalog responses
\* rows the /mapping endpoint is made to return
ItemPool ==
  { [id |-> 1, name |-> <<"B">>],
    [id |-> 12, name |-> <<"a", "b">>] }

MappingResponses == SeqsUpTo(ItemPool, MaxItems)

Quote == [high |-> 5, low |-> 4]

\* the "data" of a /latest body: a map of id strings to a quote or null
PriceMaps ==
  { [k \in { <<"1">> } |-> Some(Quote)],
    [k \in { <<"1">>, <<"1", "2">> } |-> Some(Quote)],
    [k \in { <<"1">>, <<"1", "2">> } |-> IF k = <<"1">> THEN None ELSE Some(Quote)] }

\* /latest bodies: "data" missing, null, or a map
LatestResponses ==
  { EmptyObject, [data |-> None] } \cup { [data |-> Some(m)] : m \in PriceMaps }

\* what the network does with a request: it fails, or answers with a body;
\* "none" stands for a request that the call never sends
NetFail == [kind |-> "fail"]
NetNone == [kind |-> "none"]
NetOk(b) == [kind |-> "ok", body |-> b]

\* ------------------------------------------------------------- the methods
\* Each method maps the client state st = [mc, nc, lc, reqs] (the two caches,
\* the names cache and the requests sent so far in this call) to
\* [st, outcome, value]; net = [mapping, latest] is what the network does with
\* a request for each path (_get raises FetchError unless the reply is "ok").
Ret(st, outcome, value) == [st |-> st, outcome |-> outcome, value |-> value]

\* _get(path): one request, logged with what came back
Req(path, reply) == [path |-> path, reply |-> reply]

ItemNames(items) == [i \in 1..Len(items) |-> items[i].name]

\* a mapping() that serves a populated cache even when refresh is set
mappingIgnoringRefresh(st, refresh, net) ==
  IF st.mc = None
    THEN IF net.mapping.kind = "ok"
           THEN Ret([st EXCEPT !.mc = Some(net.mapping.body),
                               !.nc = Some(ItemNames(net.mapping.body)),
                               !.reqs = Append(@, Req("/mapping", net.mapping))],
                    "ok", net.mapping.body)
           ELSE Ret([st EXCEPT !.reqs = Append(@, Req("/mapping", net.mapping))], "FetchError", None)
    ELSE Ret(st, "ok", st.mc[1])

mapping(st, refresh, net) ==
  IF st.mc = None \/ refresh
    THEN IF net.mapping.kind = "ok"
           THEN Ret([st EXCEPT !.mc = Some(net.mapping.body),
                               !.nc = Some(ItemNames(net.mapping.body)),
                               !.reqs = Append(@, Req("/mapping", net.mapping))],
                    "ok", net.mapping.body)
           ELSE Ret([st EXCEPT !.reqs = Append(@, Req("/mapping", net.mapping))], "FetchError", None)
    ELSE Ret(st, "ok", st.mc[1])

\* data.get("data", {}) or {}
LatestData(body) ==
  IF "data" \in DOMAIN body /\ body.data # None THEN body.data[1] ELSE EmptyDict

\* a latest_index() that empties its cache when the request fails
latest_indexClearsOnFailure(st, refresh, net) ==
  IF st.lc = None \/ refresh
    THEN IF net.latest.kind = "ok"
           THEN Ret([st EXCEPT !.lc = Some(LatestData(net.latest.body)),
                               !.reqs = Append(@, Req("/latest", net.latest))],
                    "ok", LatestData(net.latest.body))
           ELSE Ret([st EXCEPT !.lc = Some(EmptyDict),
                               !.reqs = Append(@, Req("/latest", net.latest))], "FetchError", None)
    ELSE Ret(st, "ok", st.lc[1])

latest_index(st, refresh, net) ==
  IF st.lc = None \/ refresh
    THEN IF net.latest.kind = "ok"
           THEN Ret([st EXCEPT !.lc = Some(LatestData(net.latest.body)),
                               !.reqs = Append(@, Req("/latest", net.latest))],
                    "ok", LatestData(net.latest.body))
           ELSE Ret([st EXCEPT !.reqs = Append(@, Req("/latest", net.latest))], "FetchError", None)
    ELSE Ret(st, "ok", st.lc[1])

\* a tradeable_mapping() that keeps every mapping row
TradeableUnfiltered(items, latest) == items

\* [it for it in items if str(it.get("id")) in latest_ids]
TradeableFilter(items, latest) == SelectSeq(items, LAMBDA it : str(it.id) \in DOMAIN latest)

TradeableAfterLatest(m, l) ==
  IF l.outcome # "ok" THEN l ELSE Ret(l.st, "ok", TradeableFilter(m.value, l.value))

TradeableAfterMapping(m, refresh, net) ==
  IF m.outcome # "ok" THEN m ELSE TradeableAfterLatest(m, latest_index(m.st, refresh, net))

tradeable_mapping(st, refresh, net) == TradeableAfterMapping(mapping(st, refresh, net), refresh, net)

apply_alias(query) ==
  IF str_lower(str_strip(query)) \in DOMAIN aliases
    THEN aliases[str_lower(str_strip(query))]
    ELSE query

\* the first element of items that satisfies Test, or KeyError
FirstOr(st, items, Test(_)) ==
  IF \E i \in 1..Len(items) : Test(items[i])
    THEN Ret(st, "ok", items[CHOOSE i \in 1..Len(items) :
                               Test(items[i]) /\ \A j \in 1..(i - 1) : ~Test(items[j])])
    ELSE Ret(st, "KeyError", None)

\* a lookup(id) that returns the first tradeable row whatever its id
LookupIdFirstRow(t, l, item) ==
  IF l.outcome # "ok" THEN l
  ELSE IF str(item) \notin DOMAIN l.value \/ t.value = << >> THEN Ret(l.st, "KeyError", None)
  ELSE Ret(l.st, "ok", t.value[1])

\* lookup(item) for an int: t is tradeable_mapping(), l is latest_index()
LookupIdAfterLatest(t, l, item) ==
  IF l.outcome # "ok" THEN l
  ELSE IF str(item) \notin DOMAIN l.value THEN Ret(l.st, "KeyError", None)
  ELSE FirstOr(l.st, t.value, LAMBDA it : it.id = item)

LookupIdAfterTradeable(t, item, net) ==
  IF t.outcome # "ok" THEN t ELSE LookupIdAfterLatest(t, latest_index(t.st, FALSE, net), item)

\* a lookup(id) that refreshes both caches first
lookupRefreshing(st, item, net) == LookupIdAfterTradeable(tradeable_mapping(st, TRUE, net), item, net)

lookup(st, item, net) == LookupIdAfterTradeable(tradeable_mapping(st, FALSE, net), item, net)

\* lookup(item) for a str
LookupNameAfterTradeable(t, query) ==
  IF t.outcome # "ok" THEN t
  ELSE FirstOr(t.st, t.value, LAMBDA it : str_lower(it.name) = query)

lookup_name(st, item, net) ==
  LookupNameAfterTradeable(tradeable_mapping(st, FALSE, net), str_lower(str_strip(apply_alias(item))))

\* list.sort(key=...) is stable: it goes behind every element whose key is not greater
RECURSIVE InsertByName(_, _)
InsertByName(sorted, it) ==
  IF sorted = << >> THEN <<it>>
  ELSE IF str_less(str_lower(it.name), str_lower(Head(sorted).name))
    THEN <<it>> \o sorted
    ELSE <<Head(sorted)>> \o InsertByName(Tail(sorted), it)

RECURSIVE SortByLowerName(_)
SortByLowerName(items) ==
  IF items = << >> THEN << >>
  ELSE InsertByName(SortByLowerName(SubSeq(items, 1, Len(items) - 1)), items[Len(items)])

\* hits[:n] for n >= 0
Take(items, n) == SubSeq(items, 1, IF n < Len(items) THEN n ELSE Len(items))

\* `limit` as a condition: neither None nor 0
Truthy(limit) == limit # None /\ limit[1] # 0

\* hits[:limit] if limit else hits
Slice(hits, limit) == IF Truthy(limit) THEN Take(hits, limit[1]) ELSE hits

\* fuzzy_search: the import comes first, then tradeable_mapping(); the ranking
\* is process.extract's, over the names of t's items: the result carries the
\* items and the limit it is called with, in "extract"
FuzzyAfterTradeable(t, limit) ==
  IF t.outcome # "ok" THEN [t EXCEPT !.value = None] @@ [extract |-> None]
  ELSE Ret(t.st, "ok", None) @@ [extract |-> Some([items |-> t.value, limit |-> limit])]

fuzzy_search(st, query, limit, net, installed) ==
  IF ~installed THEN Ret(st, "ImportError", None) @@ [extract |-> None]
  ELSE FuzzyAfterTradeable(tradeable_mapping(st, FALSE, net), limit)

\* the substring hits left in mapping order
SearchHitsUnsorted(items, q) == SelectSeq(items, LAMBDA it : contains(str_lower(it.name), q))

SearchHits(items, q) == SortByLowerName(SelectSeq(items, LAMBDA it : contains(str_lower(it.name), q)))

SearchAfterHits(t, hits, query, limit, fuzzy, net, installed) ==
  IF hits # << >> \/ ~fuzzy
    THEN Ret(t.st, "ok", Slice(hits, limit)) @@ [extract |-> None]
    ELSE fuzzy_search(t.st, query, IF Truthy(limit) THEN limit[1] ELSE FuzzyDefaultLimit, net, installed)

SearchAfterTradeable(t, query, limit, fuzzy, net, installed) ==
  IF t.outcome # "ok" THEN [t EXCEPT !.value = None] @@ [extract |-> None]
  ELSE SearchAfterHits(t, SearchHits(t.value, str_lower(str_strip(query))), query, limit, fuzzy, net, installed)

\* search(query, limit, fuzzy=...): query is rebound to its alias first
search(st, query, limit, fuzzy, net, installed) ==
  SearchAfterTradeable(tradeable_mapping(st, FALSE, net), apply_alias(query), limit, fuzzy, net, installed)

\* a latest(item_id) that hands back a null entry instead of raising
LatestNoNullCheck(l, item_id) ==
  IF l.outcome # "ok" THEN l
  ELSE IF str(item_id) \notin DOMAIN l.value THEN Ret(l.st, "KeyError", None)
  ELSE Ret(l.st, "ok", l.value[str(item_id)])

\* latest(item_id)
LatestAfterIndex(l, item_id) ==
  IF l.outcome # "ok" THEN l
  ELSE IF str(item_id) \notin DOMAIN l.value \/ l.value[str(item_id)] = None
    THEN Ret(l.st, "KeyError", None)
  ELSE Ret(l.st, "ok", l.value[str(item_id)][1])

latest(st, item_id, net) == LatestAfterIndex(latest_index(st, FALSE, net), item_id)

\* price(item_id)
PriceAfterLatest(meta, p) ==
  IF p.outcome # "ok" THEN p ELSE Ret(p.st, "ok", [meta |-> meta.value, price |-> p.value])

PriceAfterLookup(meta, item_id, net) ==
  IF meta.outcome # "ok" THEN meta ELSE PriceAfterLatest(meta, latest(meta.st, item_id, net))

price(st, item_id, net) == PriceAfterLookup(lookup(st, item_id, net), item_id, net)

\* Hiscores(username): the dataclass defaults
HsInit ==
  /\ raw_json = None
  /\ fetched = FALSE
  /\ parsed = FALSE
  /\ skill_order = << >>
  /\ clue_order = << >>
  /\ pvp_order = << >>
  /\ activity_order = << >>
  /\ boss_order = << >>
  /\ skills = EmptyDict
  /\ clues = EmptyDict
  /\ pvp = EmptyDict
  /\ activities = EmptyDict
  /\ bosses = EmptyDict
  /\ hs_last = [op |-> "new", outcome |-> "ok"]

\* ItemsClient(): the dataclass defaults
ItInit ==
  /\ mapping_cache = None
  /\ names_cache = None
  /\ latest_cache = None
  /\ it_last = [op |-> "new", args |-> << >>, outcome |-> "ok", value |-> None, reqs |-> << >>]

\* ------------------------------------------------------- ItemsClient calls
St == [mc |-> mapping_cache, nc |-> names_cache, lc |-> latest_cache, reqs |-> << >>]

\* what the network may do in one call that requests /mapping when needM and
\* then, unless that failed, /latest when needL
MapNet(need) == IF need THEN {NetFail} \cup {NetOk(b) : b \in MappingResponses} ELSE {NetNone}
LatNet(need) == IF need THEN {NetFail} \cup {NetOk(b) : b \in LatestResponses} ELSE {NetNone}
Nets(needM, needL) ==
  UNION { { [mapping |-> m, latest |-> l] :
              l \in IF m.kind = "fail" THEN {NetNone} ELSE LatNet(needL) } :
          m \in MapNet(needM) }

\* the call returns or raises: the object's fields and the caller's view of it
Commit(op, args, r) ==
  /\ mapping_cache' = r.st.mc
  /\ names_cache' = r.st.nc
  /\ latest_cache' = r.st.lc
  /\ it_last' = [op |-> op, args |-> args, outcome |-> r.outcome,
                 value |-> IF r.outcome = "ok" THEN Some(r.value) ELSE None,
                 reqs |-> r.st.reqs]
  /\ UNCHANGED <<rapidfuzz, hsVars>>

ItemIds == {1, 2, 12}
\* lookup(name) arguments
LookupNames == { <<" ", "b">>, <<"W">> }
\* search queries
Queries == { << >>, <<" ", "B">>, <<"W">> }
Limits == {None, Some(0), Some(1)}
\* fuzzy_search queries
FuzzyQueries == { <<"W">> }

Mapping ==
  \E refresh \in BOOLEAN :
    \E net \in Nets(mapping_cache = None \/ refresh, FALSE) :
      \E r \in {mapping(St, refresh, net)} :
        Commit("mapping", <<refresh>>, r)

LatestIndex ==
  \E refresh \in BOOLEAN :
    \E net \in Nets(FALSE, latest_cache = None \/ refresh) :
      \E r \in {latest_index(St, refresh, net)} :
        Commit("latest_index", <<refresh>>, r)

TradeableMapping ==
  \E refresh \in BOOLEAN :
    \E net \in Nets(mapping_cache = None \/ refresh, latest_cache = None \/ refresh) :
      \E r \in {tradeable_mapping(St, refresh, net)} :
        Commit("tradeable_mapping", <<refresh>>, r)

Lookup ==
  \E item \in ItemIds :
    \E net \in Nets(mapping_cache = None, latest_cache = None) :
      \E r \in {lookup(St, item, net)} :
        Commit("lookup", <<item>>, r)

LookupName ==
  \E item \in LookupNames :
    \E net \in Nets(mapping_cache = None, latest_cache = None) :
      \E r \in {lookup_name(St, item, net)} :
        Commit("lookup_name", <<item>>, r)

\* process.extract(query, names, scorer, limit, score_cutoff) returns at most
\* limit matches, best first; the scores are the library's, so any choice of
\* distinct positions in any order is a possible answer
Injective(f) == \A i, j \in DOMAIN f : i # j => f[i] # f[j]
ExtractResults(ex) ==
  IF ex = None THEN {None}
  ELSE { Some([i \in 1..Len(f) |-> ex[1].items[f[i]]]) :
           f \in { g \in SeqsUpTo(1..Len(ex[1].items), Len(ex[1].items)) :
                     Injective(g) /\ Len(g) <= ex[1].limit } }

\* the result of a call that may have reached process.extract
Resolve(r, picked) ==
  IF r.extract = None THEN Ret(r.st, r.outcome, r.value) ELSE Ret(r.st, "ok", picked[1])

Search ==
  \E query \in Queries, limit \in Limits, fuzzy \in BOOLEAN :
    \E net \in Nets(mapping_cache = None, latest_cache = None) :
      \E r \in {search(St, query, limit, fuzzy, net, rapidfuzz)} :
        \E picked \in ExtractResults(r.extract) :
          \E res \in {Resolve(r, picked)} :
            Commit("search", <<query, limit, fuzzy>>, res)

FuzzySearch ==
  \E query \in FuzzyQueries, limit \in {1, FuzzyDefaultLimit} :
    \E net \in Nets(rapidfuzz /\ mapping_cache = None, rapidfuzz /\ latest_cache = None) :
      \E r \in {fuzzy_search(St, apply_alias(query), limit, net, rapidfuzz)} :
        \E picked \in ExtractResults(r.extract) :
          \E res \in {Resolve(r, picked)} :
            Commit("fuzzy_search", <<query, limit>>, res)

Latest ==
  \E item_id \in ItemIds :
    \E net \in Nets(FALSE, latest_cache = None) :
      \E r \in {latest(St, item_id, net)} :
        Commit("latest", <<item_id>>, r)

Price ==
  \E item_id \in ItemIds :
    \E net \in Nets(mapping_cache = None, latest_cache = None) :
      \E r \in {price(St, item_id, net)} :
        Commit("price", <<item_id>>, r)

Init == HsInit /\ ItInit /\ rapidfuzz = FALSE

Next == Fetch \/ Parse

Spec == Init /\ [][Next]_vars

\* a Hiscores object used directly and through HiscoresAPI.get
NextApi == Fetch \/ Parse \/ ApiGet

SpecApi == Init /\ [][NextApi]_vars

\* a Hiscores object, new or just fetched, that is parsed and read
NameOverall == <<"O", "v", "e", "r", "a", "l", "l">>
NameZulrah == <<"Z", "u", "l", "r", "a", "h">>

\* bodies with up to MaxRows rows, two skills and two bosses among them
AccessResponses ==
  ResponsesOver(SkillRowPool \cup { [name |-> NameOverall, level |-> 50] },
                { [name |-> NameLms, score |-> 3],
                  [name |-> NameObor, score |-> 55],
                  [name |-> NameZulrah, score |-> 7] },
                MaxRows)
    \cup MalformedResponses

InitAccess ==
  /\ \/ raw_json = None /\ fetched = FALSE /\ hs_last = [op |-> "new", outcome |-> "ok"]
     \/ /\ \E resp \in AccessResponses : raw_json = Some(resp)
        /\ fetched = TRUE
        /\ hs_last = [op |-> "fetch", outcome |-> "ok"]
  /\ parsed = FALSE
  /\ skill_order = << >>
  /\ clue_order = << >>
  /\ pvp_order = << >>
  /\ activity_order = << >>
  /\ boss_order = << >>
  /\ skills = EmptyDict
  /\ clues = EmptyDict
  /\ pvp = EmptyDict
  /\ activities = EmptyDict
  /\ bosses = EmptyDict
  /\ ItInit
  /\ rapidfuzz = FALSE

NextAccess == Parse \/ Accessor \/ Iterate

SpecAccess == InitAccess /\ [][NextAccess]_vars

\* the two pure functions, each applied to an argument drawn at the start
InitPure ==
  /\ raw_json = None
  /\ fetched = FALSE
  /\ parsed = FALSE
  /\ skill_order = << >>
  /\ clue_order = << >>
  /\ pvp_order = << >>
  /\ activity_order = << >>
  /\ boss_order = << >>
  /\ skills = EmptyDict
  /\ clues = EmptyDict
  /\ pvp = EmptyDict
  /\ activities = EmptyDict
  /\ bosses = EmptyDict
  /\ \/ \E m \in ModeFlags : hs_last = [op |-> "call", fn |-> "_mode_suffix", args |-> m]
     \/ \E x \in NormInputs : hs_last = [op |-> "call", fn |-> "normalize_name", args |-> <<x>>]
  /\ ItInit
  /\ rapidfuzz = FALSE

NextPure == ModeSuffix \/ NormalizeName \/ NormalizeAgain

SpecPure == InitPure /\ [][NextPure]_vars

\* an ItemsClient in a runtime with or without rapidfuzz
InitItems == HsInit /\ ItInit /\ rapidfuzz \in BOOLEAN

NextItems ==
  \/ Mapping
  \/ LatestIndex
  \/ TradeableMapping
  \/ Lookup
  \/ LookupName
  \/ Search
  \/ FuzzySearch
  \/ Latest
  \/ Price

SpecItems == InitItems /\ [][NextItems]_vars

\* parse() alone, on a Hiscores that has just fetched a body whose activities
\* are drawn from a wider pool of display names
NamePvpArena == <<"P", "v", "P", " ", "A", "r", "e", "n", "a">>
NameClueRank == <<"c", "l", "u", "e", "_", "s", "c", "r", "o", "l", "l", "s", "_", "r", "a", "n", "k">>
NameLog == <<"C", "o", "l", "l", "e", "c", "t", "i", "o", "n", " ", "L", "o", "g">>
NameArenaPoints == <<"A", "r", "e", "n", "a", " ", "P", "o", "i", "n", "t", "s">>
NameClanRank == <<"C", "l", "a", "n", " ", "R", "a", "n", "k">>
NameRank == <<"R", "a", "n", "k">>
NameKril == <<"K", "'", "r", "i", "l">>

ClassifyActPool ==
  ActRowPool \cup
  { [name |-> NamePvpArena, score |-> 1],
    [name |-> NameClueRank, score |-> 2],
    [name |-> NameLog, score |-> 3],
    [name |-> NameArenaPoints, score |-> 4],
    [name |-> NameClanRank, score |-> 5],
    [name |-> NameRank, score |-> 6],
    [name |-> NameKril, score |-> 7],
    BadRow }

ClassifyResponses == ResponsesOver({}, ClassifyActPool, MaxRows)

InitClassify ==
  /\ \E resp \in ClassifyResponses : raw_json = Some(resp)
  /\ fetched = TRUE
  /\ parsed = FALSE
  /\ skill_order = << >>
  /\ clue_order = << >>
  /\ pvp_order = << >>
  /\ activity_order = << >>
  /\ boss_order = << >>
  /\ skills = EmptyDict
  /\ clues = EmptyDict
  /\ pvp = EmptyDict
  /\ activities = EmptyDict
  /\ bosses = EmptyDict
  /\ hs_last = [op |-> "fetch", outcome |-> "ok"]
  /\ ItInit
  /\ rapidfuzz = FALSE

NextClassify == Parse

SpecClassify == InitClassify /\ [][NextClassify]_vars

\* ===================================================================== properties
IsClueKey(k) == startswith(k, CluePrefix)
IsPvpKey(k) == k \in PVP_ACTIVITY_KEYS
IsMiscKey(k) ==
  k \in NON_BOSS_ACTIVITY_KEYS \/ endswith(k, PointsSuffix) \/ endswith(k, RankSuffix)

KeyLmsRank == <<"l", "m", "s", "_", "r", "a", "n", "k">>
KeyClanRank == <<"c", "l", "a", "n", "_", "r", "a", "n", "k">>
KeyObor == <<"o", "b", "o", "r">>

ParsedOk == hs_last = [op |-> "parse", outcome |-> "ok"]

\* C1: every key parse() files is in the one bucket its priority rule names
\* (clue prefix, else PvP set even with a _rank suffix, else non-boss set or
\* _points / _rank suffix, else bosses), every row of a completed parse is
\* filed, and the four buckets' key sets are pairwise disjoint.
C1_Classification ==
  /\ \A k \in DOMAIN clues : IsClueKey(k)
  /\ \A k \in DOMAIN pvp : ~IsClueKey(k) /\ IsPvpKey(k)
  /\ \A k \in DOMAIN activities : ~IsClueKey(k) /\ ~IsPvpKey(k) /\ IsMiscKey(k)
  /\ \A k \in DOMAIN bosses : ~IsClueKey(k) /\ ~IsPvpKey(k) /\ ~IsMiscKey(k)
  /\ (DOMAIN clues) \cap (DOMAIN pvp) = {}
  /\ (DOMAIN clues) \cap (DOMAIN activities) = {}
  /\ (DOMAIN clues) \cap (DOMAIN bosses) = {}
  /\ (DOMAIN pvp) \cap (DOMAIN activities) = {}
  /\ (DOMAIN pvp) \cap (DOMAIN bosses) = {}
  /\ (DOMAIN activities) \cap (DOMAIN bosses) = {}
  /\ ParsedOk =>
       \A i \in 1..Len(GetList(raw_json[1], "activities")) :
         normalize_name(GetList(raw_json[1], "activities")[i].name)
           \in (DOMAIN clues) \cup (DOMAIN pvp) \cup (DOMAIN activities) \cup (DOMAIN bosses)

\* a completed parse that filed lms_rank under pvp and clan_rank under activities
C1_Witness ==
  /\ ParsedOk
  /\ KeyLmsRank \in DOMAIN pvp
  /\ KeyClanRank \in DOMAIN activities

\* C2: in every state, each bucket's order list and its map have the same keys.
C2_OrderMatchesMap ==
  /\ SeqKeys(skill_order) = DOMAIN skills
  /\ SeqKeys(clue_order) = DOMAIN clues
  /\ SeqKeys(pvp_order) = DOMAIN pvp
  /\ SeqKeys(activity_order) = DOMAIN activities
  /\ SeqKeys(boss_order) = DOMAIN bosses

\* a parse that raised part-way through the skills, on an object whose boss
\* list still repeats a name from an earlier parse
C2_Witness ==
  /\ hs_last = [op |-> "parse", outcome |-> "KeyError"]
  /\ Len(skill_order) = 1
  /\ boss_order = <<KeyObor, KeyObor>>
  /\ DOMAIN bosses = {KeyObor}

\* the caller's view of the last ItemsClient call
LastOp(op) == it_last.op = op
LastOk(op) == it_last.op = op /\ it_last.outcome = "ok"

\* the rows of the mapping cache that have a key in the price cache
Priced(it) == str(it.id) \in DOMAIN latest_cache[1]
TradeableNow == SelectSeq(mapping_cache[1], Priced)
InMappingCache(id) == \E i \in 1..Len(mapping_cache[1]) : mapping_cache[1][i].id = id
Count(seq, x) == Cardinality({ i \in 1..Len(seq) : seq[i] = x })

ItemB == [id |-> 1, name |-> <<"B">>]
ItemAb == [id |-> 12, name |-> <<"a", "b">>]

\* C3: whatever calls came before, a tradeable_mapping() that returns gives
\* exactly the rows of the mapping cache as it is now whose id, as a string,
\* is a key of the price cache as it is now, in mapping order.
C3_TradeableFromCaches ==
  LastOk("tradeable_mapping") =>
    /\ mapping_cache # None
    /\ latest_cache # None
    /\ it_last.value = Some(TradeableNow)

\* tradeable_mapping() answered from caches that earlier calls filled, and
\* dropped a row that has no price
C3_Witness ==
  /\ LastOk("tradeable_mapping")
  /\ it_last.args = <<FALSE>>
  /\ it_last.reqs = << >>
  /\ it_last.value = Some(<<ItemB>>)
  /\ mapping_cache = Some(<<ItemAb, ItemB>>)

\* what mapping() / latest_index() may do in one step, given the cache it owns
\* before and after, the other cache, the path it requests and the cache
\* contents a reply body stands for
CachedFetchStep(own, ownAfter, other, otherAfter, path, Contents(_)) ==
  LET refresh == it_last'.args[1]
      rq == it_last'.reqs
  IN /\ (rq # << >>) <=> (own = None \/ refresh)
     /\ Len(rq) <= 1
     /\ rq = << >> =>
          /\ it_last'.outcome = "ok"
          /\ it_last'.value = own
          /\ ownAfter = own
          /\ otherAfter = other
     /\ (rq # << >> /\ rq[1].reply.kind = "ok") =>
          /\ rq[1].path = path
          /\ it_last'.outcome = "ok"
          /\ ownAfter = Some(Contents(rq[1].reply.body))
          /\ it_last'.value = ownAfter
          /\ otherAfter = other

\* the price map a /latest body stands for: its "data", or the empty map when
\* "data" is missing (or null)
PriceMapOf(body) ==
  IF "data" \notin DOMAIN body THEN EmptyDict
  ELSE IF body.data = None THEN EmptyDict
  ELSE body.data[1]

WholeBody(body) == body

\* C4: mapping(refresh) and latest_index(refresh) send a request iff their own
\* cache was never populated or refresh is true; without a request they return
\* the cached contents; a successful request replaces the own cache with the
\* whole response (for prices its "data", or the empty map) and leaves the
\* other cache as it was.
C4_CachingDiscipline ==
  [][ /\ it_last'.op = "mapping" =>
           CachedFetchStep(mapping_cache, mapping_cache', latest_cache, latest_cache',
                           "/mapping", WholeBody)
      /\ it_last'.op = "latest_index" =>
           CachedFetchStep(latest_cache, latest_cache', mapping_cache, mapping_cache',
                           "/latest", PriceMapOf)
    ]_vars

\* mapping(refresh=True) replaced a populated mapping cache
C4_Witness ==
  /\ LastOk("mapping")
  /\ it_last.args = <<TRUE>>
  /\ Len(it_last.reqs) = 1
  /\ mapping_cache = Some(<<ItemAb>>)
  /\ latest_cache # None

\* C5 as stated: a call that ends in FetchError leaves both caches as they
\* were before the call.
C5_FailureLeavesBothCaches ==
  [][ it_last'.outcome = "FetchError" =>
        /\ mapping_cache' = mapping_cache
        /\ latest_cache' = latest_cache
    ]_vars

\* C5: a call ends in FetchError at the request that failed, which is its
\* last; the cache that request was to fill keeps what it held before the
\* call; the other cache keeps what it held too, unless the call had fetched
\* /mapping successfully before /latest failed, and then the mapping cache
\* holds that whole response. No cache ever holds part of a response.
C5_FailedRequestKeepsItsCache ==
  [][ it_last'.outcome = "FetchError" =>
        LET rq == it_last'.reqs
        IN /\ rq # << >>
           /\ rq[Len(rq)].reply.kind = "fail"
           /\ \A i \in 1..(Len(rq) - 1) : rq[i].reply.kind = "ok"
           /\ rq[Len(rq)].path = "/mapping" =>
                /\ Len(rq) = 1
                /\ mapping_cache' = mapping_cache
                /\ latest_cache' = latest_cache
           /\ rq[Len(rq)].path = "/latest" =>
                /\ latest_cache' = latest_cache
                /\ IF Len(rq) = 1
                     THEN mapping_cache' = mapping_cache
                     ELSE /\ Len(rq) = 2
                          /\ rq[1].path = "/mapping"
                          /\ mapping_cache' = Some(rq[1].reply.body)
    ]_vars

\* tradeable_mapping(refresh=True) fetched /mapping, failed on /latest, and
\* the price cache still holds its earlier contents
C5_Witness ==
  /\ it_last.op = "tradeable_mapping"
  /\ it_last.args = <<TRUE>>
  /\ it_last.outcome = "FetchError"
  /\ Len(it_last.reqs) = 2
  /\ mapping_cache = Some(<<ItemB>>)
  /\ latest_cache # None
  /\ latest_cache # Some(EmptyDict)

\* C6: lookup(id) for an int returns a mapping row with that id exactly when
\* the id is in the mapping cache and, as a string, a key of the price cache;
\* otherwise (only in the mapping, only in the price map, in neither) it
\* raises KeyError and returns no row.
C6_LookupById ==
  (LastOp("lookup") /\ it_last.outcome # "FetchError") =>
    /\ mapping_cache # None
    /\ latest_cache # None
    /\ IF InMappingCache(it_last.args[1]) /\ str(it_last.args[1]) \in DOMAIN latest_cache[1]
         THEN /\ it_last.outcome = "ok"
              /\ it_last.value[1].id = it_last.args[1]
              /\ Count(mapping_cache[1], it_last.value[1]) > 0
         ELSE /\ it_last.outcome = "KeyError"
              /\ it_last.value = None

\* lookup(12) returned the second of two tradeable rows
C6_Witness ==
  /\ LastOk("lookup")
  /\ it_last.args = <<12>>
  /\ it_last.value = Some(ItemAb)
  /\ mapping_cache = Some(<<ItemB, ItemAb>>)

\* C7: search(query) without fuzzy and without a limit returns exactly the
\* tradeable rows whose lowercased name contains the alias-substituted,
\* trimmed, lowercased query, each as often as it is tradeable, in ascending
\* order of lowercased name; the empty query returns every tradeable row.
C7_SubstringSearch ==
  (LastOk("search") /\ it_last.args[2] = None /\ ~it_last.args[3]) =>
    LET q == str_lower(str_strip(apply_alias(it_last.args[1])))
        v == it_last.value[1]
    IN /\ \A i \in 1..Len(v) : contains(str_lower(v[i].name), q) /\ Count(TradeableNow, v[i]) > 0
       /\ \A i \in 1..Len(TradeableNow) :
            contains(str_lower(TradeableNow[i].name), q) =>
              Count(v, TradeableNow[i]) = Count(TradeableNow, TradeableNow[i])
       /\ \A i, j \in 1..Len(v) :
            i < j => ~str_less(str_lower(v[j].name), str_lower(v[i].name))
       /\ q = << >> => Len(v) = Len(TradeableNow)

\* search(" B") found both names, returned "ab" before "B" though the mapping
\* lists "B" first
C7_Witness ==
  /\ LastOk("search")
  /\ it_last.args = << <<" ", "B">>, None, FALSE >>
  /\ mapping_cache = Some(<<ItemB, ItemAb>>)
  /\ it_last.value = Some(<<ItemAb, ItemB>>)

\* C8 as stated: with a limit n >= 0, 0 included, search() without fuzzy
\* returns the first n of the sorted substring matches.
C8_LimitTruncates ==
  (LastOk("search") /\ it_last.args[2] # None /\ ~it_last.args[3]) =>
    /\ Len(it_last.value[1]) <= it_last.args[2][1]
    /\ it_last.value[1] =
         Take(SearchHits(TradeableNow, str_lower(str_strip(apply_alias(it_last.args[1])))),
              it_last.args[2][1])

\* C9 as stated: without rapidfuzz, search() never raises ImportError.
C9_SearchDegrades ==
  (~rapidfuzz /\ LastOp("search")) => it_last.outcome # "ImportError"

\* C10: price(id) returns {meta, price} exactly when id is in the mapping
\* cache and the price cache has a non-null entry for str(id): meta is a
\* mapping row with that id and price is that entry; in every other case
\* (lookup(id) or latest(id) would raise) it raises KeyError and returns nothing.
C10_PriceBundle ==
  (LastOp("price") /\ it_last.outcome # "FetchError") =>
    /\ mapping_cache # None
    /\ latest_cache # None
    /\ IF /\ InMappingCache(it_last.args[1])
          /\ str(it_last.args[1]) \in DOMAIN latest_cache[1]
          /\ latest_cache[1][str(it_last.args[1])] # None
         THEN /\ it_last.outcome = "ok"
              /\ it_last.value[1].meta.id = it_last.args[1]
              /\ Count(TradeableNow, it_last.value[1].meta) > 0
              /\ Some(it_last.value[1].price) = latest_cache[1][str(it_last.args[1])]
         ELSE /\ it_last.outcome = "KeyError"
              /\ it_last.value = None

\* price(12) returned the row and the quote of id 12
C10_Witness ==
  /\ LastOk("price")
  /\ it_last.args = <<12>>
  /\ it_last.value = Some([meta |-> ItemAb, price |-> Quote])
  /\ mapping_cache = Some(<<ItemB, ItemAb>>)

\* C11 as stated: parse() with no raw data raises ValueError; once a fetch has
\* succeeded, parse() returns and sets parsed, whatever the body holds
\* (directly or through HiscoresAPI.get with fetch and parse both set).
C11_ParseAfterFetchSucceeds ==
  /\ (hs_last.op = "parse" /\ raw_json = None) => hs_last.outcome = "ValueError"
  /\ (hs_last.op = "parse" /\ fetched) => (hs_last.outcome = "ok" /\ parsed)
  /\ (hs_last.op = "get" /\ hs_last.args = <<FALSE, TRUE>>) => hs_last.outcome = "ValueError"
  /\ (hs_last.op = "get" /\ hs_last.args = <<TRUE, TRUE>>) =>
       hs_last.outcome \in {"ok", "FetchError"}

\* C12: an accessor looks up the normalized key, so a display name and its
\* normalized key give the same answer; with the key in the bucket and no
\* field asked for it returns the bucket's entry; with the key absent it
\* returns the default it was given, or raises KeyError when it was given
\* none; the call leaves every bucket and order list as it was.
C12_Accessors ==
  [][ hs_last'.op \in AccessorNames =>
        \E b \in {BucketOf(hs_last'.op)}, k \in {normalize_name(hs_last'.args[1])} :
          \E byKey \in {get_bucket(b, k, hs_last'.args[2], hs_last'.args[3])} :
            /\ k \notin DOMAIN b =>
                 IF hs_last'.args[3] = None
                   THEN hs_last'.outcome = "KeyError"
                   ELSE /\ hs_last'.outcome = "ok"
                        /\ hs_last'.value.tag = "default"
                        /\ hs_last'.value.v = hs_last'.args[3]
            /\ k \in DOMAIN b => hs_last'.outcome = "ok"
            /\ (k \in DOMAIN b /\ hs_last'.args[2] = None) =>
                 /\ hs_last'.value.tag = "entry"
                 /\ hs_last'.value.v = b[k]
            /\ byKey.outcome = hs_last'.outcome
            /\ byKey.value.tag = hs_last'.value.tag
            /\ byKey.value = hs_last'.value
            /\ UNCHANGED <<skills, clues, pvp, activities, bosses,
                           skill_order, clue_order, pvp_order, activity_order, boss_order>>
    ]_vars

\* pvp_activity("LMS - Rank") returned the entry stored under lms_rank
C12_Witness ==
  /\ hs_last.op = "pvp_activity"
  /\ hs_last.args = <<NameLms, None, None>>
  /\ hs_last.outcome = "ok"
  /\ hs_last.value.tag = "entry"
  /\ hs_last.value.v = pvp[KeyLmsRank]

\* C13: for each of the 32 combinations of the flags, _mode_suffix returns
\* one of the six suffixes, that of the first flag that is true in the order
\* seasonal, deadman, ultimate, hardcore, ironman, and "" when none is; it
\* never raises.
C13_ModePrecedence ==
  hs_last.op = "_mode_suffix" =>
    /\ hs_last.outcome = "ok"
    /\ hs_last.value \in {"_seasonal", "_deadman", "_ultimate", "_hardcore_ironman", "_ironman", ""}
    /\ (hs_last.value = "_seasonal") <=> hs_last.args.seasonal
    /\ (hs_last.value = "_deadman") <=> (hs_last.args.deadman /\ ~hs_last.args.seasonal)
    /\ (hs_last.value = "_ultimate") <=>
         (hs_last.args.ultimate /\ ~hs_last.args.deadman /\ ~hs_last.args.seasonal)
    /\ (hs_last.value = "_hardcore_ironman") <=>
         (hs_last.args.hardcore /\ ~hs_last.args.ultimate /\ ~hs_last.args.deadman
            /\ ~hs_last.args.seasonal)
    /\ (hs_last.value = "_ironman") <=>
         (hs_last.args.ironman /\ ~hs_last.args.hardcore /\ ~hs_last.args.ultimate
            /\ ~hs_last.args.deadman /\ ~hs_last.args.seasonal)
    /\ (hs_last.value = "") <=>
         (~hs_last.args.ironman /\ ~hs_last.args.hardcore /\ ~hs_last.args.ultimate
            /\ ~hs_last.args.deadman /\ ~hs_last.args.seasonal)

\* ironman, hardcore and ultimate together resolve to ultimate
C13_Witness ==
  /\ hs_last.op = "_mode_suffix"
  /\ hs_last.args = [ironman |-> TRUE, hardcore |-> TRUE, ultimate |-> TRUE,
                     deadman |-> FALSE, seasonal |-> FALSE]
  /\ hs_last.value = "_ultimate"

\* a name with its case swapped, with spaces around it, without its
\* apostrophes, with spaces for its punctuation
char_swapcase(c) ==
  IF IsUpper(c) THEN char_lower(c)
  ELSE IF \E i \in 1..Len(LowerCase) : LowerCase[i] = c
    THEN UpperCase[CHOOSE i \in 1..Len(LowerCase) : LowerCase[i] = c]
  ELSE c
SwapCase(x) == [i \in 1..Len(x) |-> char_swapcase(x[i])]
Padded(x) == <<" ">> \o x \o <<" ", " ">>
NoApostrophes(x) == SelectSeq(x, LAMBDA c : c # "'")
PunctAsSpaces(x) == [i \in 1..Len(x) |-> IF x[i] \in {"-", ":", "(", ")", ","} THEN " " ELSE x[i]]

\* C14: normalize_name(normalize_name(x)) = normalize_name(x) for every x over
\* letters, space, underscore, apostrophe and - : ( ) , and x has the same key
\* as x in the other case, x with spaces around it, x without its apostrophes
\* and x with spaces in place of its punctuation.
C14_NormalizeIdempotent ==
  /\ hs_last.op = "normalize_name_twice" => hs_last.value = hs_last.first
  /\ hs_last.op = "normalize_name" =>
       /\ normalize_name(SwapCase(hs_last.args[1])) = hs_last.value
       /\ normalize_name(Padded(hs_last.args[1])) = hs_last.value
       /\ normalize_name(NoApostrophes(hs_last.args[1])) = hs_last.value
       /\ normalize_name(PunctAsSpaces(hs_last.args[1])) = hs_last.value

\* " B'-a" was normalized to b_a, and once more to b_a
C14_Witness ==
  /\ hs_last.op = "normalize_name_twice"
  /\ hs_last.args = << <<"B", "'", "-", "a">> >>
  /\ hs_last.first = <<"b", "_", "a">>
  /\ hs_last.value = <<"b", "_", "a">>

\* the normalized names of rows, in response order
KeysOf(rows) == [i \in 1..Len(rows) |-> normalize_name(rows[i].name)]

\* C15: while the object is parsed, skill_order is the normalized names of the
\* skills rows in response order and each of the four other order lists is
\* the normalized names of the activities rows filed under its bucket, in
\* response order; an iterator yields, for each key of its order list in
\* order, the key with the bucket's entry for it, and changes nothing, so a
\* second pass yields the same.
C15_ResponseOrder ==
  [][ /\ parsed' =>
           \E sk \in {KeysOf(GetList(raw_json'[1], "skills"))},
              ak \in {KeysOf(GetList(raw_json'[1], "activities"))} :
             /\ skill_order' = sk
             /\ clue_order' = SelectSeq(ak, LAMBDA k : Bucket(k) = "clues")
             /\ pvp_order' = SelectSeq(ak, LAMBDA k : Bucket(k) = "pvp")
             /\ activity_order' = SelectSeq(ak, LAMBDA k : Bucket(k) = "activities")
             /\ boss_order' = SelectSeq(ak, LAMBDA k : Bucket(k) = "bosses")
      /\ hs_last'.op \in IterNames =>
           \E order \in {IterOrder(hs_last'.op)}, map \in {IterMap(hs_last'.op)} :
             /\ hs_last'.outcome = "ok"
             /\ Len(hs_last'.value) = Len(order)
             /\ \A i \in 1..Len(order) : hs_last'.value[i] = <<order[i], map[order[i]]>>
             /\ UNCHANGED <<raw_json, fetched, parsed, skills, clues, pvp, activities, bosses,
                            skill_order, clue_order, pvp_order, activity_order, boss_order>>
    ]_vars

\* bosses_iter() on a parsed [Zulrah, Obor] yielded zulrah, then obor
C15_Witness ==
  /\ parsed
  /\ hs_last.op = "bosses_iter"
  /\ boss_order = << <<"z", "u", "l", "r", "a", "h">>, KeyObor >>
  /\ Len(hs_last.value) = 2
  /\ hs_last.value[1][1] = <<"z", "u", "l", "r", "a", "h">>
  /\ hs_last.value[2] = <<KeyObor, bosses[KeyObor]>>

\* the last row among rows whose normalized name is k
LastRowFor(rows, k) ==
  rows[CHOOSE i \in 1..Len(rows) :
         /\ normalize_name(rows[i].name) = k
         /\ \A j \in (i + 1)..Len(rows) : normalize_name(rows[j].name) # k]

\* order and map hold the rows among rows that are filed under b, and nothing else
HoldsExactly(order, map, rows, b) ==
  /\ order = SelectSeq(KeysOf(rows), LAMBDA k : Bucket(k) = b)
  /\ DOMAIN map = { k \in SeqKeys(KeysOf(rows)) : Bucket(k) = b }
  /\ \A k \in DOMAIN map : map[k] = ActEntry(LastRowFor(rows, k))

\* C16: after a parse() that returned, whatever was fetched and parsed
\* before, the five order lists and maps hold the rows of the current raw_json
\* and nothing else: each key once per row that has it, each entry that of the
\* last such row. The state is a function of raw_json, so a second parse() of
\* the same raw_json leaves it as it is.
C16_RebuiltFromCurrent ==
  ParsedOk =>
    \E srows \in {GetList(raw_json[1], "skills")}, arows \in {GetList(raw_json[1], "activities")} :
      /\ parsed
      /\ skill_order = KeysOf(srows)
      /\ DOMAIN skills = SeqKeys(KeysOf(srows))
      /\ \A k \in DOMAIN skills : skills[k] = SkillEntry(LastRowFor(srows, k))
      /\ HoldsExactly(clue_order, clues, arows, "clues")
      /\ HoldsExactly(pvp_order, pvp, arows, "pvp")
      /\ HoldsExactly(activity_order, activities, arows, "activities")
      /\ HoldsExactly(boss_order, bosses, arows, "bosses")

\* a parse() of a body that names only the player returned: nothing is left
\* in any bucket
C16_Witness ==
  /\ ParsedOk
  /\ raw_json = Some([name |-> PlayerName])
  /\ skill_order = << >> /\ skills = EmptyDict
  /\ clue_order = << >> /\ clues = EmptyDict
  /\ pvp_order = << >> /\ pvp = EmptyDict
  /\ activity_order = << >> /\ activities = EmptyDict
  /\ boss_order = << >> /\ bosses = EmptyDict

\* the calls that read the catalog without a refresh argument
ReadOps == {"lookup", "lookup_name", "search", "latest", "price"}

\* C17: lookup, search, latest and price request /mapping only when the
\* mapping cache was unpopulated at the call and /latest only when the price
\* cache was, each at most once; with both caches populated such a call sends
\* no request and leaves both caches as they were.
C17_RequestsOnlyPopulate ==
  [][ it_last'.op \in ReadOps =>
        /\ \A i \in 1..Len(it_last'.reqs) :
             /\ it_last'.reqs[i].path \in {"/mapping", "/latest"}
             /\ it_last'.reqs[i].path = "/mapping" => mapping_cache = None
             /\ it_last'.reqs[i].path = "/latest" => latest_cache = None
             /\ \A j \in 1..Len(it_last'.reqs) :
                  it_last'.reqs[i].path = it_last'.reqs[j].path => i = j
        /\ (mapping_cache # None /\ latest_cache # None) =>
             /\ it_last'.reqs = << >>
             /\ mapping_cache' = mapping_cache
             /\ latest_cache' = latest_cache
    ]_vars

\* price(1) returned a bundle without a request: both caches were populated
C17_Witness ==
  /\ LastOk("price")
  /\ it_last.args = <<1>>
  /\ it_last.reqs = << >>
  /\ mapping_cache # None
  /\ latest_cache # None

\* C18 as stated: a parse() call either returns, with the five buckets
\* rebuilt, or raises and leaves all five order lists and maps as they were.
C18_ParseAllOrNothing ==
  [][ (hs_last'.op = "parse" /\ hs_last'.outcome # "ok") =>
        UNCHANGED <<skill_order, clue_order, pvp_order, activity_order, boss_order,
                    skills, clues, pvp, activities, bosses>>
    ]_vars

====
